---- MODULE Spec2Model ----
(***************************************************************************)
(* A model of logparser.js: the line-by-line record extractor of main(),   *)
(* the recursive value parser (parseValue / parseObject / parseArray,      *)
(* splitTopLevel, filterValue) and the filter stages of both main()        *)
(* variants the source file holds (lines 1-327 and lines 329-676).         *)
(*                                                                         *)
(* A JavaScript string is a sequence of one-character strings, so that     *)
(* every scan of the code (trim, indexOf, substring, the brace counters)   *)
(* is computed character by character.                                     *)
(***************************************************************************)
EXTENDS Integers, Sequences, FiniteSets, TLC

VARIABLES
    file,            \* the lines readline delivers, in order
    pos,             \* number of lines the for-await loop has consumed
    options,         \* the parsed command line (parseArgs)
    variant,         \* 1: main() of lines 239-325, 2: main() of lines 538-650
    recordBlocks,    \* completed record blocks
    currentBlock,    \* text of the block being recorded
    recordStarted,   \* a trigger line was seen and the block is still open
    braceDepth,      \* '{' minus '}' seen since the first trigger line
    recordSet,       \* the parsed records (global recordSet)
    filteredRecords, \* what main() hands to the output stage
    printed,         \* the records handed to console.log / outputCSV
    pc,              \* "reading" | "done" for main(); "call" | "returned" for a pure call
    arg,             \* argument of a pure call
    ret              \* result of a pure call

vars == <<file, pos, options, variant, recordBlocks, currentBlock, recordStarted,
          braceDepth, recordSet, filteredRecords, printed, pc, arg, ret>>

----------------------------------------------------------------------------
(* Bounds of the model.                                                    *)

MaxLines == 4
MaxRecs == 3
MaxParts == 3
MaxTokenLen == 3
MaxSplitLen == 4

----------------------------------------------------------------------------
(* Evaluation.  Bind(v, F) is F applied to the value of v: a let that      *)
(* computes v once, however often F uses it.                               *)

Bind(v, F(_)) == CHOOSE r \in {F(x) : x \in {v}} : TRUE

Min(S) == CHOOSE x \in S : \A y \in S : x <= y
Max(S) == CHOOSE x \in S : \A y \in S : x >= y

----------------------------------------------------------------------------
(* String primitives of JavaScript, on sequences of characters.            *)

DQ == "\""
SQ == "'"

Whitespace == {" ", "\n", "\t"}

\* String.prototype.trim: the text between the first and the last character
\* that is not white space.
trim(str) ==
    Bind(str, LAMBDA s :
    Bind({i \in 1..Len(s) : s[i] \notin Whitespace}, LAMBDA keep :
        IF keep = {} THEN <<>> ELSE SubSeq(s, Min(keep), Max(keep))))

Clamp(n, len) == IF n < 0 THEN 0 ELSE IF n > len THEN len ELSE n

\* String.prototype.substring(a, b): both ends clamped to [0, length] and
\* swapped when a > b; the result is the characters at 0-based [lo, hi).
substring(str, a, b) ==
    Bind(<<str, a, b>>, LAMBDA x :
        LET s  == x[1]
            ca == Clamp(x[2], Len(s))
            cb == Clamp(x[3], Len(s))
        IN  SubSeq(s, (IF ca <= cb THEN ca ELSE cb) + 1, IF ca <= cb THEN cb ELSE ca))

\* substring(a) with the end left out.
substringFrom(str, a) == Bind(str, LAMBDA s : substring(s, a, Len(s)))

startsWith(str, p) ==
    Bind(str, LAMBDA s : Len(p) <= Len(s) /\ SubSeq(s, 1, Len(p)) = p)

endsWith(str, p) ==
    Bind(str, LAMBDA s :
        Len(p) <= Len(s) /\ SubSeq(s, Len(s) - Len(p) + 1, Len(s)) = p)

\* 0-based index of the first / last occurrence of character ch, or -1.
indexOf(str, ch) ==
    Bind(str, LAMBDA s :
    Bind({i \in 1..Len(s) : s[i] = ch}, LAMBDA hits :
        IF hits = {} THEN -1 ELSE Min(hits) - 1))

lastIndexOf(str, ch) ==
    Bind(str, LAMBDA s :
    Bind({i \in 1..Len(s) : s[i] = ch}, LAMBDA hits :
        IF hits = {} THEN -1 ELSE Max(hits) - 1))

RECURSIVE Repeat(_, _)
Repeat(ch, n) == IF n <= 0 THEN <<>> ELSE <<ch>> \o Repeat(ch, n - 1)

----------------------------------------------------------------------------
(* Numbers. A finite Number is m * 10^e with m not divisible by 10 (0 is   *)
(* m = 0, e = 0), so that two literals of the same value are the same      *)
(* Number; Infinity and NaN are their own values. Rounding to double       *)
(* precision is not modelled: the literals of the model are short.         *)

NaN == [k |-> "nan"]
Inf(sgn) == [k |-> "inf", sgn |-> sgn]

RECURSIVE Fin(_, _)
Fin(m, e) ==
    IF m = 0 THEN [k |-> "fin", m |-> 0, e |-> 0]
    ELSE IF m % 10 = 0 THEN Fin(m \div 10, e + 1)
    ELSE [k |-> "fin", m |-> m, e |-> e]

Negate(num) ==
    Bind(num, LAMBDA n :
        IF n.k = "fin" THEN Fin(0 - n.m, n.e)
        ELSE IF n.k = "inf" THEN Inf(0 - n.sgn)
        ELSE n)

HexDigits == <<"0", "1", "2", "3", "4", "5", "6", "7", "8", "9",
               "a", "b", "c", "d", "e", "f">>
HexUpper  == <<"0", "1", "2", "3", "4", "5", "6", "7", "8", "9",
               "A", "B", "C", "D", "E", "F">>

\* The value of a digit character, 99 for any other character.
DigitVal(c) ==
    IF \E i \in 1..16 : HexDigits[i] = c
    THEN (CHOOSE i \in 1..16 : HexDigits[i] = c) - 1
    ELSE IF \E i \in 1..16 : HexUpper[i] = c
    THEN (CHOOSE i \in 1..16 : HexUpper[i] = c) - 1
    ELSE 99

AllDigits(s, radix) == \A i \in 1..Len(s) : DigitVal(s[i]) < radix

\* The value of the first n digits of s.
RECURSIVE DigitsValUpTo(_, _, _)
DigitsValUpTo(s, n, radix) ==
    IF n = 0 THEN 0
    ELSE DigitsValUpTo(s, n - 1, radix) * radix + DigitVal(s[n])

DigitsVal(str, radix) == Bind(str, LAMBDA s : DigitsValUpTo(s, Len(s), radix))

InfinityTok == <<"I", "n", "f", "i", "n", "i", "t", "y">>

\* The exponent part: [+-] digits. <<>> when it is malformed, else <<value>>.
ExponentPart(expo) ==
    LET neg == expo # <<>> /\ Head(expo) = "-"
        dig == IF expo # <<>> /\ Head(expo) \in {"-", "+"} THEN Tail(expo) ELSE expo
    IN  IF dig = <<>> \/ ~AllDigits(dig, 10) THEN <<>>
        ELSE <<IF neg THEN 0 - DigitsVal(dig, 10) ELSE DigitsVal(dig, 10)>>

\* The mantissa: digits [. digits] or . digits, as m * 10^e. <<>> when malformed.
MantissaPart(mant) ==
    Bind(indexOf(mant, "."), LAMBDA di :
        LET ip == IF di = -1 THEN mant ELSE SubSeq(mant, 1, di)
            fp == IF di = -1 THEN <<>> ELSE SubSeq(mant, di + 2, Len(mant))
        IN  IF AllDigits(ip, 10) /\ AllDigits(fp, 10) /\ Len(ip) + Len(fp) > 0
            THEN <<DigitsVal(ip \o fp, 10), 0 - Len(fp)>>
            ELSE <<>>)

\* StrUnsignedDecimalLiteral: Infinity | mantissa | mantissa (e|E) exponent
StrUnsignedDecimal(s) ==
    IF s = InfinityTok THEN Inf(1)
    ELSE
    Bind({i \in 1..Len(s) : s[i] \in {"e", "E"}}, LAMBDA es :
    Bind(MantissaPart(IF es = {} THEN s ELSE SubSeq(s, 1, Min(es) - 1)), LAMBDA mant :
    Bind(IF es = {} THEN <<0>> ELSE ExponentPart(SubSeq(s, Min(es) + 1, Len(s))), LAMBDA ex :
        IF mant = <<>> \/ ex = <<>> THEN NaN
        ELSE Fin(mant[1], mant[2] + ex[1]))))

\* 0x, 0o, 0b followed by digits of the radix.
NonDecimal(s, radix) ==
    Bind(SubSeq(s, 3, Len(s)), LAMBDA d :
        IF d # <<>> /\ AllDigits(d, radix) THEN Fin(DigitsVal(d, radix), 0) ELSE NaN)

\* A conversion that knows signed decimal literals only: the empty string,
\* Infinity and the 0x, 0o, 0b literals are not numbers.
NumberDecimalOnly(str) ==
    Bind(trim(str), LAMBDA s :
        IF s = <<>> THEN NaN
        ELSE Bind(IF Head(s) \in {"-", "+"} THEN Tail(s) ELSE s, LAMBDA u :
                 IF u = InfinityTok THEN NaN
                 ELSE IF Head(s) = "-" THEN Negate(StrUnsignedDecimal(u))
                 ELSE StrUnsignedDecimal(u)))

\* Number(string): StringToNumber. White space is stripped, the empty string
\* is 0, a sign is allowed on a decimal literal only.
Number(str) ==
    Bind(trim(str), LAMBDA s :
    Bind(SubSeq(s, 1, IF Len(s) < 2 THEN Len(s) ELSE 2), LAMBDA p :
        IF s = <<>> THEN Fin(0, 0)
        ELSE IF p \in {<<"0", "x">>, <<"0", "X">>} THEN NonDecimal(s, 16)
        ELSE IF p \in {<<"0", "o">>, <<"0", "O">>} THEN NonDecimal(s, 8)
        ELSE IF p \in {<<"0", "b">>, <<"0", "B">>} THEN NonDecimal(s, 2)
        ELSE IF Head(s) = "-" THEN Negate(StrUnsignedDecimal(Tail(s)))
        ELSE IF Head(s) = "+" THEN StrUnsignedDecimal(Tail(s))
        ELSE StrUnsignedDecimal(s)))

isNaN(n) == n.k = "nan"

RECURSIVE DigitsOf(_)
DigitsOf(n) ==
    IF n < 10 THEN <<HexDigits[n + 1]>>
    ELSE DigitsOf(n \div 10) \o <<HexDigits[(n % 10) + 1]>>

\* Number::toString (radix 10) of the finite number with digits d and
\* decimal exponent e: nn is the position of the decimal point.
FiniteToString(d, e) ==
    LET kk == Len(d)
        nn == Len(d) + e
        ex == IF nn - 1 < 0 THEN <<"-">> \o DigitsOf(1 - nn) ELSE <<"+">> \o DigitsOf(nn - 1)
    IN  IF kk <= nn /\ nn <= 21 THEN d \o Repeat("0", nn - kk)
        ELSE IF 0 < nn /\ nn <= 21 THEN SubSeq(d, 1, nn) \o <<".">> \o SubSeq(d, nn + 1, kk)
        ELSE IF -6 < nn /\ nn <= 0 THEN <<"0", ".">> \o Repeat("0", 0 - nn) \o d
        ELSE IF kk = 1 THEN d \o <<"e">> \o ex
        ELSE <<d[1], ".">> \o SubSeq(d, 2, kk) \o <<"e">> \o ex

NumberToString(num) ==
    Bind(num, LAMBDA n :
        IF n.k = "nan" THEN <<"N", "a", "N">>
        ELSE IF n.k = "inf"
        THEN (IF n.sgn < 0 THEN <<"-">> ELSE <<>>) \o InfinityTok
        ELSE IF n.m = 0 THEN <<"0">>
        ELSE (IF n.m < 0 THEN <<"-">> ELSE <<>>)
             \o Bind(DigitsOf(IF n.m < 0 THEN 0 - n.m ELSE n.m),
                     LAMBDA d : FiniteToString(d, n.e)))

----------------------------------------------------------------------------
(* Values of the parser.                                                   *)

StrV(s)  == [t |-> "string", s |-> s]
NumV(n)  == [t |-> "number", n |-> n]
BoolV(b) == [t |-> "boolean", b |-> b]
ArrV(a)  == [t |-> "array", a |-> a]
Undefined == [t |-> "undefined"]

TrueTok  == <<"t", "r", "u", "e">>
FalseTok == <<"f", "a", "l", "s", "e">>

\* The test of lines 113-116 and 206-209: the text starts and ends with the
\* same kind of quote.
inQuotePair(v) ==
    \/ (startsWith(v, <<DQ>>) /\ endsWith(v, <<DQ>>))
    \/ (startsWith(v, <<SQ>>) /\ endsWith(v, <<SQ>>))

\* The coercions of lines 119-126 on an unquoted token.
coerce(v) ==
    Bind(Number(v), LAMBDA n :
        IF ~isNaN(n) THEN NumV(n)
        ELSE IF v = TrueTok THEN BoolV(TRUE)
        ELSE IF v = FalseTok THEN BoolV(FALSE)
        ELSE StrV(v))

\* filterValue with the quote branch falling through to the coercions:
\* the text between the quotes is coerced like an unquoted token.
filterValueCoerceQuoted(value) ==
    Bind(trim(value), LAMBDA v :
        IF inQuotePair(v) THEN Bind(substring(v, 1, Len(v) - 1), LAMBDA w : coerce(w))
        ELSE coerce(v))

filterValue(value) ==
    Bind(trim(value), LAMBDA v :
        IF inQuotePair(v) THEN StrV(substring(v, 1, Len(v) - 1))
        ELSE coerce(v))

----------------------------------------------------------------------------
(* splitTopLevel: the scan of lines 138-165. The loop's variables are one  *)
(* record; splitStep is the loop body on one character.                    *)

\* depth++ on an opener, depth-- on a closer, of braces only.
bracketDeltaBracesOnly(ch) ==
    IF ch = "{" THEN 1 ELSE IF ch = "}" THEN -1 ELSE 0

\* Lines 154-158.
bracketDelta(ch) ==
    IF ch = "{" \/ ch = "[" THEN 1
    ELSE IF ch = "}" \/ ch = "]" THEN -1
    ELSE 0

\* Lines 133-137.
splitStart ==
    [parts |-> <<>>, current |-> <<>>, depth |-> 0, inQuotes |-> FALSE, quoteChar |-> ""]

\* Lines 139-164.
splitStep(st, ch) ==
    IF st.inQuotes
    THEN [st EXCEPT !.current = Append(@, ch), !.inQuotes = (ch # st.quoteChar)]
    ELSE IF ch = DQ \/ ch = SQ
    THEN [st EXCEPT !.inQuotes = TRUE, !.quoteChar = ch, !.current = Append(@, ch)]
    ELSE
    Bind(st.depth + bracketDelta(ch), LAMBDA d :
        IF ch = "," /\ d = 0
        THEN [st EXCEPT !.depth = d, !.parts = Append(@, trim(st.current)), !.current = <<>>]
        ELSE [st EXCEPT !.depth = d, !.current = Append(@, ch)])

\* Lines 166-169.
splitEnd(st) ==
    IF trim(st.current) # <<>> THEN Append(st.parts, trim(st.current)) ELSE st.parts

RECURSIVE splitLoop(_, _, _)
splitLoop(str, i, st) ==
    IF i > Len(str) THEN splitEnd(st)
    ELSE Bind(splitStep(st, str[i]), LAMBDA nx : splitLoop(str, i + 1, nx))

splitTopLevel(str) == Bind(str, LAMBDA s : splitLoop(s, 1, splitStart))

----------------------------------------------------------------------------
(* Objects. An object literal {} of the code is its own properties in the  *)
(* order JavaScript enumerates them (p) and its prototype: <<>> stands for *)
(* Object.prototype, <<v>> for a prototype v installed by assignment to    *)
(* __proto__.                                                              *)

EmptyObject == [t |-> "object", p |-> <<>>, proto |-> <<>>]

ProtoKey == <<"_", "_", "p", "r", "o", "t", "o", "_", "_">>

LengthKey == <<"l", "e", "n", "g", "t", "h">>

\* The property names every object inherits from Object.prototype.
ObjectPrototypeNames ==
    { <<"c", "o", "n", "s", "t", "r", "u", "c", "t", "o", "r">>,
      <<"h", "a", "s", "O", "w", "n", "P", "r", "o", "p", "e", "r", "t", "y">>,
      <<"i", "s", "P", "r", "o", "t", "o", "t", "y", "p", "e", "O", "f">>,
      <<"p", "r", "o", "p", "e", "r", "t", "y", "I", "s", "E", "n", "u", "m", "e", "r", "a", "b", "l", "e">>,
      <<"t", "o", "L", "o", "c", "a", "l", "e", "S", "t", "r", "i", "n", "g">>,
      <<"t", "o", "S", "t", "r", "i", "n", "g">>,
      <<"v", "a", "l", "u", "e", "O", "f">>,
      ProtoKey }

\* An array index: the canonical decimal string of an integer (no leading
\* zero, no sign). Keys of ten digits and more are outside the model.
IsArrayIndex(key) ==
    /\ Len(key) >= 1
    /\ Len(key) <= 9
    /\ AllDigits(key, 10)
    /\ (Len(key) = 1 \/ key[1] # "0")

\* Object.keys(obj): the own property names in enumeration order.
Keys(obj) == [i \in 1..Len(obj.p) |-> obj.p[i].key]

hasOwnProperty(obj, key) == \E i \in 1..Len(obj.p) : obj.p[i].key = key

OwnValue(obj, key) == obj.p[CHOOSE i \in 1..Len(obj.p) : obj.p[i].key = key].val

\* Position of a new own property: integer keys in ascending numeric order
\* first, then the other keys in the order they were created.
InsertAt(obj, key) ==
    IF IsArrayIndex(key)
    THEN 1 + Cardinality({i \in 1..Len(obj.p) :
                             /\ IsArrayIndex(obj.p[i].key)
                             /\ DigitsVal(obj.p[i].key, 10) < DigitsVal(key, 10)})
    ELSE Len(obj.p) + 1

\* obj.__proto__ = val: an object or array becomes the prototype, any other
\* value is ignored; no own property is created.
SetPrototype(obj, val) ==
    IF val.t \in {"object", "array"} THEN [obj EXCEPT !.proto = <<val>>] ELSE obj

Overwrite(obj, key, val) ==
    [obj EXCEPT !.p = [i \in 1..Len(obj.p) |->
                          IF obj.p[i].key = key THEN [key |-> key, val |-> val]
                          ELSE obj.p[i]]]

InsertNew(obj, key, val, at) ==
    [obj EXCEPT !.p = SubSeq(obj.p, 1, at - 1)
                         \o <<[key |-> key, val |-> val]>>
                         \o SubSeq(obj.p, at, Len(obj.p))]

\* obj[key] = val on an object created by {}: __proto__ is the accessor of
\* Object.prototype; an existing property keeps its place; a new one is
\* placed by InsertAt.
ObjSet(obj, key, val) ==
    IF key = ProtoKey THEN SetPrototype(obj, val)
    ELSE IF hasOwnProperty(obj, key) THEN Overwrite(obj, key, val)
    ELSE InsertNew(obj, key, val, InsertAt(obj, key))

\* key in v, for an object or an array v: own properties, then the
\* prototype chain. The method names of Array.prototype are outside the model.
RECURSIVE In(_, _)
In(v, key) ==
    IF v.t = "array"
    THEN \/ (IsArrayIndex(key) /\ DigitsVal(key, 10) < Len(v.a))
         \/ key = LengthKey
         \/ key \in ObjectPrototypeNames
    ELSE \/ hasOwnProperty(v, key)
         \/ (IF v.proto = <<>> THEN key \in ObjectPrototypeNames ELSE In(v.proto[1], key))

\* v[key]: the own property, else the prototype chain's, else undefined.
RECURSIVE Get(_, _)
Get(v, key) ==
    IF v.t = "array"
    THEN IF IsArrayIndex(key) /\ DigitsVal(key, 10) < Len(v.a)
         THEN v.a[DigitsVal(key, 10) + 1]
         ELSE IF key = LengthKey THEN NumV(Fin(Len(v.a), 0))
         ELSE IF key = ProtoKey THEN [t |-> "prototype"]
         ELSE IF key \in ObjectPrototypeNames THEN [t |-> "function"]
         ELSE Undefined
    ELSE IF hasOwnProperty(v, key) THEN OwnValue(v, key)
    ELSE IF v.proto # <<>>
    THEN (IF key = ProtoKey THEN v.proto[1] ELSE Get(v.proto[1], key))
    ELSE IF key = ProtoKey THEN [t |-> "prototype"]
    ELSE IF key \in ObjectPrototypeNames THEN [t |-> "function"]
    ELSE Undefined

----------------------------------------------------------------------------
(* The recursive parser.                                                   *)

RECURSIVE parseValue(_)
RECURSIVE parseObject(_)
RECURSIVE parseArray(_)
RECURSIVE objectLoop(_, _, _)
RECURSIVE arrayLoop(_, _, _)

\* Lines 206-211: a key in a pair of quotes loses one layer of them.
stripKeyQuotes(key) ==
    IF inQuotePair(key) THEN substring(key, 1, Len(key) - 1) ELSE key

\* Lines 188-195 and 218-225: trim, drop a leading open and a trailing
\* close, trim.
innerText(str, open, close) ==
    Bind(trim(str), LAMBDA t0 :
    Bind(IF startsWith(t0, <<open>>) THEN substringFrom(t0, 1) ELSE t0, LAMBDA t1 :
        trim(IF endsWith(t1, <<close>>)
             THEN substring(t1, 0, lastIndexOf(t1, close))
             ELSE t1)))

\* parseValue that knows objects and scalars only.
parseValueNoArray(str) ==
    Bind(trim(str), LAMBDA s :
        IF startsWith(s, <<"{">>) THEN parseObject(s) ELSE filterValue(s))

parseValue(str) ==
    Bind(trim(str), LAMBDA s :
        IF startsWith(s, <<"{">>) THEN parseObject(s)
        ELSE IF startsWith(s, <<"[">>) THEN parseArray(s)
        ELSE filterValue(s))

\* Lines 201-212, for a part that has a ':' at colonIndex.
objectEntry(obj, part, colonIndex) ==
    Bind(stripKeyQuotes(trim(substring(part, 0, colonIndex))), LAMBDA key :
    Bind(parseValue(trim(substringFrom(part, colonIndex + 1))), LAMBDA val :
        ObjSet(obj, key, val)))

\* The for-of loop of parseObject over the parts (lines 200-213).
objectLoop(parts, i, obj) ==
    IF i > Len(parts) THEN obj
    ELSE
    Bind(indexOf(parts[i], ":"), LAMBDA colonIndex :
        IF colonIndex = -1 THEN objectLoop(parts, i + 1, obj)
        ELSE Bind(objectEntry(obj, parts[i], colonIndex),
                  LAMBDA o : objectLoop(parts, i + 1, o)))

parseObject(str) ==
    Bind(innerText(str, "{", "}"), LAMBDA inner :
        IF inner = <<>> THEN EmptyObject
        ELSE Bind(splitTopLevel(inner), LAMBDA parts : objectLoop(parts, 1, EmptyObject)))

\* The for-of loop of parseArray (lines 229-231).
arrayLoop(parts, i, arr) ==
    IF i > Len(parts) THEN arr
    ELSE Bind(Append(arr, parseValue(parts[i])), LAMBDA a : arrayLoop(parts, i + 1, a))

parseArray(str) ==
    Bind(innerText(str, "[", "]"), LAMBDA inner :
        IF inner = <<>> THEN ArrV(<<>>)
        ELSE Bind(splitTopLevel(inner), LAMBDA parts : ArrV(arrayLoop(parts, 1, <<>>))))

----------------------------------------------------------------------------
(* JSON.stringify and the string conversion of Array.prototype.join.      *)

RECURSIVE joinLoop(_, _, _, _)
joinLoop(strs, sep, i, acc) ==
    IF i > Len(strs) THEN acc
    ELSE Bind(IF i = 1 THEN strs[1] ELSE acc \o sep \o strs[i],
              LAMBDA a : joinLoop(strs, sep, i + 1, a))

\* strs.join(sep) for an array of strings.
Join(strs, sep) == Bind(strs, LAMBDA ss : joinLoop(ss, sep, 1, <<>>))

EscapeChar(ch) ==
    IF ch = DQ THEN <<"\\", DQ>>
    ELSE IF ch = "\\" THEN <<"\\", "\\">>
    ELSE IF ch = "\n" THEN <<"\\", "n">>
    ELSE IF ch = "\t" THEN <<"\\", "t">>
    ELSE <<ch>>

\* The characters of a JSON string literal, between its quotes.
Quote(s) == Join([i \in 1..Len(s) |-> EscapeChar(s[i])], <<>>)

NullTok == <<"n", "u", "l", "l">>

\* Values JSON.stringify leaves out of an object (and writes as null in an array).
Unserializable(v) == v.t \in {"undefined", "function"}

RECURSIVE JSONstringify(_)
JSONstringify(v) ==
    IF v.t = "string" THEN <<DQ>> \o Quote(v.s) \o <<DQ>>
    ELSE IF v.t = "number"
    THEN (IF v.n.k = "fin" THEN NumberToString(v.n) ELSE NullTok)
    ELSE IF v.t = "boolean" THEN (IF v.b THEN TrueTok ELSE FalseTok)
    ELSE IF v.t = "array"
    THEN <<"[">>
         \o Join([i \in 1..Len(v.a) |->
                     IF Unserializable(v.a[i]) THEN NullTok ELSE JSONstringify(v.a[i])],
                 <<",">>)
         \o <<"]">>
    ELSE IF v.t = "object"
    THEN Bind(SelectSeq(v.p, LAMBDA e : ~Unserializable(e.val)), LAMBDA own :
             <<"{">>
             \o Join([i \in 1..Len(own) |->
                         <<DQ>> \o Quote(own[i].key) \o <<DQ, ":">>
                         \o JSONstringify(own[i].val)],
                     <<",">>)
             \o <<"}">>)
    ELSE IF v.t = "prototype" THEN <<"{", "}">>
    ELSE NullTok

ObjectObject ==
    <<"[", "o", "b", "j", "e", "c", "t", " ", "O", "b", "j", "e", "c", "t", "]">>

\* The string an element contributes to join(): undefined gives the empty
\* string, an array its own join(","), an object "[object Object]". The
\* source text a function converts to is outside the model.
RECURSIVE JoinElement(_)
JoinElement(v) ==
    IF v.t = "string" THEN v.s
    ELSE IF v.t = "number" THEN NumberToString(v.n)
    ELSE IF v.t = "boolean" THEN (IF v.b THEN TrueTok ELSE FalseTok)
    ELSE IF v.t = "array"
    THEN Join([i \in 1..Len(v.a) |-> JoinElement(v.a[i])], <<",">>)
    ELSE IF v.t \in {"object", "prototype"} THEN ObjectObject
    ELSE <<>>

\* Set.prototype.has on a Set of strings, kept in insertion order.
Contains(seq, x) == \E i \in 1..Len(seq) : seq[i] = x

----------------------------------------------------------------------------
(* The record extractor: one iteration of the for-await loop of main().    *)

braceDelta(ch) == IF ch = "{" THEN 1 ELSE IF ch = "}" THEN -1 ELSE 0

RECURSIVE braceLoop(_, _, _)
braceLoop(text, i, depth) ==
    IF i > Len(text) THEN depth
    ELSE Bind(depth + braceDelta(text[i]), LAMBDA d : braceLoop(text, i + 1, d))

RECURSIVE quoteAwareLoop(_, _, _, _)
quoteAwareLoop(text, i, depth, quote) ==
    IF i > Len(text) THEN depth
    ELSE IF quote # ""
    THEN quoteAwareLoop(text, i + 1, depth, IF text[i] = quote THEN "" ELSE quote)
    ELSE IF text[i] = DQ \/ text[i] = SQ
    THEN quoteAwareLoop(text, i + 1, depth, text[i])
    ELSE Bind(depth + braceDelta(text[i]), LAMBDA d : quoteAwareLoop(text, i + 1, d, ""))

\* The depth after a text, braces inside a quoted span of the text skipped.
braceCountQuoteAware(text, depth) == Bind(text, LAMBDA tx : quoteAwareLoop(tx, 1, depth, ""))

\* The for-of loops over the characters of a text (lines 259-262, 266-269):
\* the depth after the text, from the depth before it.
braceCount(text, depth) == Bind(text, LAMBDA tx : braceLoop(tx, 1, depth))

\* The trigger test that also asks for a '{' on the line.
isRecordStartWithBrace(line, started, keyword) ==
    ~started /\ keyword # <<>> /\ startsWith(line, keyword) /\ indexOf(line, "{") # -1

\* The trigger test without the test that no record is open.
isRecordStartAnyTime(line, started, keyword) ==
    keyword # <<>> /\ startsWith(line, keyword)

\* The first branch of the loop body: a trigger line while no record is open.
isRecordStart(line, started, keyword) ==
    ~started /\ keyword # <<>> /\ startsWith(line, keyword)

\* The text a trigger line contributes: the whole line.
startTextWholeLine(line, idx) == line

\* The text a trigger line contributes: from its first '{'.
startText(line, idx) == substringFrom(line, idx)

\* A block is pushed when the depth is zero or below.
blockCompleteAtOrBelowZero(started, depth) == started /\ depth <= 0

\* The test of lines 272 / 574.
blockComplete(started, depth) == started /\ depth = 0

\* Lines 254-270 / 553-572 on the loop's variables st and one line.
readStep(st, line, keyword) ==
    IF isRecordStart(line, st.recordStarted, keyword)
    THEN Bind(indexOf(line, "{"), LAMBDA idx :
             IF idx # -1
             THEN Bind(startText(line, idx), LAMBDA cb :
                      [st EXCEPT !.recordStarted = TRUE, !.currentBlock = cb,
                                 !.braceDepth = braceCount(cb, st.braceDepth)])
             ELSE [st EXCEPT !.recordStarted = TRUE])
    ELSE IF st.recordStarted
    THEN [st EXCEPT !.currentBlock = @ \o <<"\n">> \o line,
                    !.braceDepth = braceCount(line, @)]
    ELSE st

\* The push that leaves currentBlock as it is.
pushStepKeepBlock(st) ==
    IF blockComplete(st.recordStarted, st.braceDepth)
    THEN [st EXCEPT !.recordBlocks = Append(@, st.currentBlock), !.recordStarted = FALSE]
    ELSE st

\* Lines 272-276 / 574-578.
pushStep(st) ==
    IF blockComplete(st.recordStarted, st.braceDepth)
    THEN [st EXCEPT !.recordBlocks = Append(@, st.currentBlock),
                    !.currentBlock = <<>>, !.recordStarted = FALSE]
    ELSE st

loopState ==
    [recordBlocks |-> recordBlocks, currentBlock |-> currentBlock,
     recordStarted |-> recordStarted, braceDepth |-> braceDepth]

ReadLine ==
    /\ pc = "reading"
    /\ pos < Len(file)
    /\ LET st == pushStep(readStep(loopState, file[pos + 1], options.keyword))
       IN  /\ recordBlocks' = st.recordBlocks
           /\ currentBlock' = st.currentBlock
           /\ recordStarted' = st.recordStarted
           /\ braceDepth' = st.braceDepth
    /\ pos' = pos + 1
    /\ UNCHANGED <<file, options, variant, recordSet, filteredRecords, printed, pc, arg, ret>>

----------------------------------------------------------------------------
(* After the loop: parsing and the filter stages of each main().           *)

\* The blocks parsed after the loop, with a block still open at the end of
\* the input flushed to them.
blocksToParseFlushing(blocks, current, started) ==
    IF started THEN Append(blocks, current) ELSE blocks

\* The blocks the loops of lines 284 / 582 iterate: recordBlocks alone.
blocksToParse(blocks, current, started) == blocks

\* options.discardKeys.map(k => rec[k] !== undefined ? rec[k] : "").join("|")
compositeKey1(rec, keys) ==
    Join([i \in 1..Len(keys) |->
             IF Get(rec, keys[i]) # Undefined THEN JoinElement(Get(rec, keys[i])) ELSE <<>>],
         <<"|">>)

\* options.discardKeys.map(k => rec[k]).join("|")
compositeKey2(rec, keys) ==
    Join([i \in 1..Len(keys) |-> JoinElement(Get(rec, keys[i]))], <<"|">>)

RECURSIVE projectLoop1(_, _, _, _)
projectLoop1(rec, keys, i, filtered) ==
    IF i > Len(keys) THEN filtered
    ELSE Bind(IF In(rec, keys[i]) THEN ObjSet(filtered, keys[i], Get(rec, keys[i]))
              ELSE filtered,
              LAMBDA f : projectLoop1(rec, keys, i + 1, f))

\* Lines 288-292: the listed keys the record has (in), in the order listed.
project1(rec, keys) == projectLoop1(rec, keys, 1, EmptyObject)

RECURSIVE projectLoop2(_, _, _, _)
projectLoop2(rec, keys, i, filtered) ==
    IF i > Len(keys) THEN filtered
    ELSE Bind(IF hasOwnProperty(rec, keys[i])
              THEN ObjSet(filtered, keys[i], Get(rec, keys[i]))
              ELSE filtered,
              LAMBDA f : projectLoop2(rec, keys, i + 1, f))

\* Lines 626-630: the listed keys the record owns, in the order listed.
project2(rec, keys) == projectLoop2(rec, keys, 1, EmptyObject)

\* Lines 280-281, with recordSet as it is before the loop.
recordStart1(out) ==
    [fullDuplicates |-> <<>>, compositeDuplicates |-> <<>>, recordSet |-> out]

\* Lines 294-306 on the (projected) record rec.
dedupStep1(st, rec, opts) ==
    Bind(IF opts.discardFull THEN JSONstringify(rec) ELSE <<>>, LAMBDA recStr :
    IF opts.discardFull /\ Contains(st.fullDuplicates, recStr) THEN st
    ELSE
    Bind(IF opts.discardFull THEN [st EXCEPT !.fullDuplicates = Append(@, recStr)] ELSE st,
         LAMBDA st1 :
    IF Len(opts.discardKeys) = 0 THEN [st1 EXCEPT !.recordSet = Append(@, rec)]
    ELSE
    Bind(compositeKey1(rec, opts.discardKeys), LAMBDA compositeKey :
    IF Contains(st1.compositeDuplicates, compositeKey) THEN st1
    ELSE [st1 EXCEPT !.compositeDuplicates = Append(@, compositeKey),
                     !.recordSet = Append(@, rec)])))

\* Variant 1, lines 285-306: the body of the loop over the blocks.
recordStep1(st, block, opts) ==
    Bind(parseObject(block), LAMBDA parsed :
    IF opts.subkeyword # <<>> /\ ~In(parsed, opts.subkeyword) THEN st
    ELSE
    Bind(IF Len(opts.listOfWords) > 0 THEN project1(parsed, opts.listOfWords) ELSE parsed,
         LAMBDA rec : dedupStep1(st, rec, opts)))

RECURSIVE recordLoop1(_, _, _, _)
recordLoop1(blocks, i, opts, st) ==
    IF i > Len(blocks) THEN st.recordSet
    ELSE Bind(recordStep1(st, blocks[i], opts), LAMBDA nx : recordLoop1(blocks, i + 1, opts, nx))

\* Variant 2, lines 582-586: parse, keep the records that have the subkeyword.
RECURSIVE parseLoop2(_, _, _, _)
parseLoop2(blocks, i, opts, out) ==
    IF i > Len(blocks) THEN out
    ELSE
    Bind(parseObject(blocks[i]), LAMBDA rec :
    Bind(IF opts.subkeyword # <<>> /\ ~In(rec, opts.subkeyword) THEN out ELSE Append(out, rec),
         LAMBDA o : parseLoop2(blocks, i + 1, opts, o)))

\* Lines 594-599: the filter callback on one record.
discardFullStep2(st, rec) ==
    Bind(JSONstringify(rec), LAMBDA recStr :
        IF Contains(st.seenFull, recStr) THEN st
        ELSE [seenFull |-> Append(st.seenFull, recStr), kept |-> Append(st.kept, rec)])

RECURSIVE discardFullLoop2(_, _, _)
discardFullLoop2(recs, i, st) ==
    IF i > Len(recs) THEN st.kept
    ELSE Bind(discardFullStep2(st, recs[i]), LAMBDA nx : discardFullLoop2(recs, i + 1, nx))

\* Variant 2, lines 592-600: the filter with the Set seenFull.
discardFull2(recs) == discardFullLoop2(recs, 1, [seenFull |-> <<>>, kept |-> <<>>])

\* The -D step that leaves prevComposite as it is on a record that lacks
\* one of the keys.
discardKeysStep2KeepPrev(st, rec, keys) ==
    IF \A j \in 1..Len(keys) : hasOwnProperty(rec, keys[j])
    THEN Bind(compositeKey2(rec, keys), LAMBDA composite :
             [prevComposite |-> <<composite>>,
              temp |-> IF <<composite>> # st.prevComposite THEN Append(st.temp, rec)
                       ELSE st.temp])
    ELSE [prevComposite |-> st.prevComposite, temp |-> Append(st.temp, rec)]

\* Lines 607-616: prevComposite is <<>> for null and <<composite>> otherwise.
discardKeysStep2(st, rec, keys) ==
    IF \A j \in 1..Len(keys) : hasOwnProperty(rec, keys[j])
    THEN Bind(compositeKey2(rec, keys), LAMBDA composite :
             [prevComposite |-> <<composite>>,
              temp |-> IF <<composite>> # st.prevComposite THEN Append(st.temp, rec)
                       ELSE st.temp])
    ELSE [prevComposite |-> <<>>, temp |-> Append(st.temp, rec)]

RECURSIVE discardKeysLoop2(_, _, _, _)
discardKeysLoop2(recs, keys, i, st) ==
    IF i > Len(recs) THEN st.temp
    ELSE Bind(discardKeysStep2(st, recs[i], keys),
              LAMBDA nx : discardKeysLoop2(recs, keys, i + 1, nx))

\* Variant 2, lines 603-619.
discardKeys2(recs, keys) ==
    discardKeysLoop2(recs, keys, 1, [prevComposite |-> <<>>, temp |-> <<>>])

\* Variant 2, lines 623-632.
projectAll2(recs, keys) == [i \in 1..Len(recs) |-> project2(recs[i], keys)]

\* The stages of variant 2 with the projection moved before the -D pass.
filterStages2ProjectFirst(recs, opts) ==
    Bind(IF opts.discardFull THEN discardFull2(recs) ELSE recs, LAMBDA afterFull :
    Bind(IF Len(opts.listOfWords) > 0 THEN projectAll2(afterFull, opts.listOfWords)
         ELSE afterFull, LAMBDA afterProj :
        IF Len(opts.discardKeys) > 0 THEN discardKeys2(afterProj, opts.discardKeys)
        ELSE afterProj))

\* Variant 2, lines 589-632: -d, then -D, then -l, on a copy of recordSet.
filterStages2(recs, opts) ==
    Bind(IF opts.discardFull THEN discardFull2(recs) ELSE recs, LAMBDA afterFull :
    Bind(IF Len(opts.discardKeys) > 0 THEN discardKeys2(afterFull, opts.discardKeys)
         ELSE afterFull, LAMBDA afterKeys :
        IF Len(opts.listOfWords) > 0 THEN projectAll2(afterKeys, opts.listOfWords)
        ELSE afterKeys))

\* The end of the input in variant 1: lines 279-320.
Finish1 ==
    /\ pc = "reading"
    /\ pos = Len(file)
    /\ variant = 1
    /\ recordSet' = recordLoop1(blocksToParse(recordBlocks, currentBlock, recordStarted),
                                1, options, recordStart1(recordSet))
    /\ printed' = recordSet'
    /\ pc' = "done"
    /\ UNCHANGED <<file, pos, options, variant, recordBlocks, currentBlock, recordStarted,
                   braceDepth, filteredRecords, arg, ret>>

\* The end of the input in variant 2: lines 581-645.
Finish2 ==
    /\ pc = "reading"
    /\ pos = Len(file)
    /\ variant = 2
    /\ recordSet' = parseLoop2(blocksToParse(recordBlocks, currentBlock, recordStarted),
                               1, options, recordSet)
    /\ filteredRecords' = filterStages2(recordSet', options)
    /\ printed' = filteredRecords'
    /\ pc' = "done"
    /\ UNCHANGED <<file, pos, options, variant, recordBlocks, currentBlock, recordStarted,
                   braceDepth, arg, ret>>

----------------------------------------------------------------------------
(* The inputs of the model.                                                *)

SeqsUpTo(S, n) == UNION {[1..m -> S] : m \in 0..n}

Keyword == <<"T", "a", "g">>

LineOpen   == <<"T", "a", "g", " ", "{">>
LinePair   == <<"a", ":", " ", "1", ",">>
LineClose  == <<"}">>
LineInline == <<"T", "a", "g", " ", "{", "b", ":", " ", "2", "}">>
LineNoise  == <<"x">>
LineBare   == <<"T", "a", "g">>
LineOver   == <<"T", "a", "g", " ", "{", "}", "}">>

ExtractLines == {LineOpen, LinePair, LineClose, LineInline, LineNoise, LineBare, LineOver}

\* Tag { a: 1, b: [1,2], c: { d: "x" } }
TagLine ==
    <<"T", "a", "g", " ", "{", " ", "a", ":", " ", "1", ",", " ", "b", ":", " ",
      "[", "1", ",", "2", "]", ",", " ", "c", ":", " ", "{", " ", "d", ":", " ",
      DQ, "x", DQ, " ", "}", " ", "}">>

ExtractFiles == SeqsUpTo(ExtractLines, MaxLines) \cup {<<TagLine>>}

\* Lines for the edge cases of the extractor: an indented trigger line, a
\* quoted brace, a brace on a line of its own.
LineIndented == <<" ", " ", "T", "a", "g", " ", "{", "b", ":", " ", "2", "}">>
LineQuoted   == <<"s", ":", " ", DQ, "{", DQ, ",">>
LineBrace    == <<"{">>

EdgeLines == {LineOpen, LineClose, LineBare, LineOver, LineIndented, LineQuoted, LineBrace}

EdgeFiles == SeqsUpTo(EdgeLines, MaxLines)

\* One-line records: Tag {k: A, v: 1}, Tag {k: A, v: 2}, Tag {k: B, v: 1}, Tag {v: 1}
RecA1 == <<"T", "a", "g", " ", "{", "k", ":", " ", "A", ",", " ", "v", ":", " ", "1", "}">>
RecA2 == <<"T", "a", "g", " ", "{", "k", ":", " ", "A", ",", " ", "v", ":", " ", "2", "}">>
RecB1 == <<"T", "a", "g", " ", "{", "k", ":", " ", "B", ",", " ", "v", ":", " ", "1", "}">>
RecV1 == <<"T", "a", "g", " ", "{", "v", ":", " ", "1", "}">>

FilterLines == {RecA1, RecA2, RecB1, RecV1}

\* Records whose values for k are A, A, B, A.
FilterExample == <<RecA1, RecA2, RecB1, RecA1>>

FilterFiles == SeqsUpTo(FilterLines, MaxRecs) \cup {FilterExample}

NoFilters ==
    [keyword |-> Keyword, subkeyword |-> <<>>, listOfWords |-> <<>>,
     discardFull |-> FALSE, discardKeys |-> <<>>]

\* subkeyword <<>> stands for null (no -s): the code tests its truthiness.
FilterOptions ==
    [keyword : {Keyword}, subkeyword : {<<>>, <<"k">>}, listOfWords : {<<>>, <<<<"v">>>>},
     discardFull : BOOLEAN, discardKeys : {<<>>, <<<<"k">>>>}]

\* One-line records whose values for k (and v) differ by type, by nested
\* content or by where a | falls: Tag {k: 1}, Tag {k: "1"}, Tag {k: {a: 1}},
\* Tag {k: {a: 2}}, Tag {k: "a|b", v: c}, Tag {k: a, v: "b|c"}
RecNum == <<"T", "a", "g", " ", "{", "k", ":", " ", "1", "}">>
RecStr == <<"T", "a", "g", " ", "{", "k", ":", " ", DQ, "1", DQ, "}">>
RecObj1 == <<"T", "a", "g", " ", "{", "k", ":", " ", "{", "a", ":", " ", "1", "}", "}">>
RecObj2 == <<"T", "a", "g", " ", "{", "k", ":", " ", "{", "a", ":", " ", "2", "}", "}">>
RecBarK ==
    <<"T", "a", "g", " ", "{", "k", ":", " ", DQ, "a", "|", "b", DQ, ",", " ",
      "v", ":", " ", "c", "}">>
RecBarV ==
    <<"T", "a", "g", " ", "{", "k", ":", " ", "a", ",", " ",
      "v", ":", " ", DQ, "b", "|", "c", DQ, "}">>

TupleLines == {RecNum, RecStr, RecObj1, RecObj2, RecBarK, RecBarV, RecV1}

TupleFiles == SeqsUpTo(TupleLines, MaxRecs)

\* -D k and -D k,v with no other filter.
TupleOptions ==
    [keyword : {Keyword}, subkeyword : {<<>>}, listOfWords : {<<>>},
     discardFull : {FALSE}, discardKeys : {<<<<"k">>>>, <<<<"k">>, <<"v">>>>}]

\* Tokens for filterValue.
CoerceChars == {DQ, SQ, "3", ".", "-", "e", " ", "t"}

NamedTokens ==
    { TrueTok, FalseTok,
      <<"T", "r", "u", "e">>,
      <<"3", ".", "5">>,
      <<"f", "o", "o">>,
      <<DQ, "t", "r", "u", "e", DQ>>,
      <<SQ, "f", "a", "l", "s", "e", SQ>>,
      <<"N", "a", "N">>,
      <<"0", "x", "1", "f">>,
      <<"I", "n", "f", "i", "n", "i", "t", "y">>,
      <<"-", "I", "n", "f", "i", "n", "i", "t", "y">>,
      <<"3", "e", "+", "3">>,
      <<"0", "x", "g">> }

CoerceInputs == SeqsUpTo(CoerceChars, MaxTokenLen) \cup NamedTokens

\* Strings for splitTopLevel.
SplitChars == {",", "{", "}", "[", "]", DQ, SQ, "a", " "}

\* a, {b: 1, c: 2}, [1,2]
SplitExample ==
    <<"a", ",", " ", "{", "b", ":", " ", "1", ",", " ", "c", ":", " ", "2", "}",
      ",", " ", "[", "1", ",", "2", "]">>

SplitInputs == SeqsUpTo(SplitChars, MaxSplitLen) \cup {SplitExample}

\* Fragments for parseObject: { part, part, ... } over these parts.
ParseParts ==
    { <<"a", ":", " ", "1">>,
      <<"b", ":", " ", "x">>,
      <<"a", ":", " ", "2">>,
      <<"2", ":", " ", "y">>,
      <<"1", ":", " ", "z">>,
      <<"c">>,
      <<DQ, "b", DQ, ":", " ", "[", "1", ",", " ", "2", "]">>,
      <<"d", ":", " ", "{", "a", ":", " ", "1", ",", " ", "e", ":", " ", "2", "}">>,
      <<"_", "_", "p", "r", "o", "t", "o", "_", "_", ":", " ", "1">>,
      <<"s", ":", " ", DQ, "x", ",", " ", "y", ":", " ", "2", DQ>> }

Fragment(parts) == <<"{">> \o Join(parts, <<",", " ">>) \o <<"}">>

ParseInputs == {Fragment(ps) : ps \in SeqsUpTo(ParseParts, MaxParts)}

----------------------------------------------------------------------------
(* The specifications.                                                     *)

InitMain(files, optionSet) ==
    /\ file \in files
    /\ options \in optionSet
    /\ variant \in {1, 2}
    /\ pos = 0
    /\ recordBlocks = <<>>
    /\ currentBlock = <<>>
    /\ recordStarted = FALSE
    /\ braceDepth = 0
    /\ recordSet = <<>>
    /\ filteredRecords = <<>>
    /\ printed = <<>>
    /\ pc = "reading"
    /\ arg = <<>>
    /\ ret = <<>>

InitCall(inputs) ==
    /\ arg \in inputs
    /\ ret = <<>>
    /\ pc = "call"
    /\ file = <<>>
    /\ options = NoFilters
    /\ variant = 1
    /\ pos = 0
    /\ recordBlocks = <<>>
    /\ currentBlock = <<>>
    /\ recordStarted = FALSE
    /\ braceDepth = 0
    /\ recordSet = <<>>
    /\ filteredRecords = <<>>
    /\ printed = <<>>

mainState == <<file, pos, options, variant, recordBlocks, currentBlock, recordStarted,
               braceDepth, recordSet, filteredRecords, printed>>

CallFilterValue ==
    /\ pc = "call"
    /\ ret' = filterValue(arg)
    /\ pc' = "returned"
    /\ UNCHANGED <<mainState, arg>>

CallSplitTopLevel ==
    /\ pc = "call"
    /\ ret' = splitTopLevel(arg)
    /\ pc' = "returned"
    /\ UNCHANGED <<mainState, arg>>

CallParseObject ==
    /\ pc = "call"
    /\ ret' = parseObject(arg)
    /\ pc' = "returned"
    /\ UNCHANGED <<mainState, arg>>

\* main() on a file, without filter options.
Init == InitMain(ExtractFiles, {NoFilters})

Next == ReadLine \/ Finish1 \/ Finish2

Spec == Init /\ [][Next]_vars

\* main() on a file of edge-case lines, without filter options.
InitEdge == InitMain(EdgeFiles, {NoFilters})

SpecEdge == InitEdge /\ [][Next]_vars

\* main() on a file of one-line records, with filter options.
InitTuple == InitMain(TupleFiles, TupleOptions)

SpecTuple == InitTuple /\ [][Next]_vars

InitFilter == InitMain(FilterFiles, FilterOptions)

SpecFilter == InitFilter /\ [][Next]_vars

InitCoerce == InitCall(CoerceInputs)

SpecCoerce == InitCoerce /\ [][CallFilterValue]_vars

InitSplit == InitCall(SplitInputs)

SpecSplit == InitSplit /\ [][CallSplitTopLevel]_vars

InitParse == InitCall(ParseInputs)

SpecParse == InitParse /\ [][CallParseObject]_vars

----------------------------------------------------------------------------
(* Properties of the record extractor, stated on the input file.           *)

CountChar(text, ch) == Cardinality({i \in 1..Len(text) : text[i] = ch})

NetBraces(text) == CountChar(text, "{") - CountChar(text, "}")

\* The n-th smallest element of a set of numbers.
Nth(S, n) == CHOOSE x \in S : Cardinality({y \in S : y < x}) = n - 1

\* The elements of seq at the indexes in keep, in order.
SubseqAt(seq, keep) == [n \in 1..Cardinality(keep) |-> seq[Nth(keep, n)]]

\* The lines that begin with the keyword.
TriggerLines(f, keyword) ==
    {i \in 1..Len(f) : Len(f[i]) >= Len(keyword) /\ SubSeq(f[i], 1, Len(keyword)) = keyword}

HasBrace(line) == \E c \in 1..Len(line) : line[c] = "{"

FromFirstBrace(line) ==
    SubSeq(line, Min({c \in 1..Len(line) : line[c] = "{"}), Len(line))

\* The text of lines i..j of f, from the first '{' of line i, lines joined by
\* a newline.
RECURSIVE SpanText(_, _, _)
SpanText(f, i, j) ==
    IF j <= i THEN FromFirstBrace(f[i])
    ELSE SpanText(f, i, j - 1) \o <<"\n">> \o f[j]

\* The lines at whose end the braces opened from line i are closed.
ClosingLines(f, i) == {j \in i..Len(f) : NetBraces(SpanText(f, i, j)) = 0}

\* N well-formed, non-overlapping blocks: every trigger line has a '{', its
\* braces close, and no trigger line lies between it and its closing line.
WellFormed(f, keyword) ==
    \A i \in TriggerLines(f, keyword) :
        /\ HasBrace(f[i])
        /\ ClosingLines(f, i) # {}
        /\ \A k \in (i + 1)..Min(ClosingLines(f, i)) : k \notin TriggerLines(f, keyword)

\* The blocks of a well-formed file, in stream order.
ExpectedBlocks(f, keyword) ==
    [n \in 1..Cardinality(TriggerLines(f, keyword)) |->
        SpanText(f, Nth(TriggerLines(f, keyword), n),
                 Min(ClosingLines(f, Nth(TriggerLines(f, keyword), n))))]

\* C1: once the loop has read a well-formed file of N blocks, recordBlocks
\* holds exactly N blocks, in stream order, the i-th being the text of the
\* i-th block from its first '{' to the end of its closing line.
C1_WellFormedBlocks ==
    (pos = Len(file) /\ WellFormed(file, options.keyword))
        => recordBlocks = ExpectedBlocks(file, options.keyword)

\* C1 witness: a well-formed file with a noise line between a block of two
\* lines and an inline block has been read, and both blocks were pushed.
C1_Witness ==
    /\ pc = "done"
    /\ file = <<LineOpen, LineClose, LineNoise, LineInline>>
    /\ WellFormed(file, options.keyword)
    /\ Len(recordBlocks) = 2

\* C2: at every point of the loop, for every file, each block in
\* recordBlocks has as many '{' as '}'.
C2_BalancedBlocks ==
    \A i \in 1..Len(recordBlocks) :
        CountChar(recordBlocks[i], "{") = CountChar(recordBlocks[i], "}")

\* C2 witness: a file that is not well-formed has had a block pushed that
\* spans two lines and absorbed a trigger line.
C2_Witness ==
    /\ ~WellFormed(file, options.keyword)
    /\ \E i \in 1..Len(recordBlocks) :
          /\ CountChar(recordBlocks[i], "\n") >= 1
          /\ CountChar(recordBlocks[i], "{") >= 2

\* C3: when the input ends while a record is open, the open block is not
\* among the pushed blocks, the output is exactly the parse of each pushed
\* block, and it is empty when the file has a single trigger line.
C3_PartialDiscarded ==
    (pc = "done" /\ recordStarted)
        => /\ \A i \in 1..Len(recordBlocks) : recordBlocks[i] # currentBlock
           /\ Len(printed) = Len(recordBlocks)
           /\ \A i \in 1..Len(recordBlocks) : printed[i] = parseObject(recordBlocks[i])
           /\ (Cardinality(TriggerLines(file, options.keyword)) = 1 => printed = <<>>)

\* C3 witness: the input ended inside a block that had collected text,
\* after one complete block, and one record was printed.
C3_Witness ==
    /\ pc = "done"
    /\ recordStarted
    /\ Len(currentBlock) > 1
    /\ Len(recordBlocks) = 1
    /\ Len(printed) = 1

\* {a: 1, b: [1,2], c: {d: "x"}}
TagRecord ==
    [t |-> "object", proto |-> <<>>,
     p |-> << [key |-> <<"a">>, val |-> NumV(Fin(1, 0))],
              [key |-> <<"b">>, val |-> ArrV(<<NumV(Fin(1, 0)), NumV(Fin(2, 0))>>)],
              [key |-> <<"c">>,
               val |-> [t |-> "object", proto |-> <<>>,
                        p |-> <<[key |-> <<"d">>, val |-> StrV(<<"x">>)]>>]] >>]

\* C8: the one-line file Tag { a: 1, b: [1,2], c: { d: "x" } } gives one
\* block, the line from its first '{', and prints exactly one record, the
\* typed nested structure {a: 1, b: [1,2], c: {d: "x"}}.
C8_TagLineRecord ==
    (pc = "done" /\ file = <<TagLine>>)
        => /\ recordBlocks = <<FromFirstBrace(TagLine)>>
           /\ printed = <<TagRecord>>

\* C8 witness: the one-line file has been processed and one record printed,
\* whose b is an array and whose c is an object.
C8_Witness ==
    /\ pc = "done"
    /\ file = <<TagLine>>
    /\ Len(printed) = 1
    /\ Get(printed[1], <<"b">>).t = "array"
    /\ Get(printed[1], <<"c">>).t = "object"

----------------------------------------------------------------------------
(* Properties of splitTopLevel, stated on the input string.                *)

\* The quote character of the quoted span open after the first i characters
\* of s, "" when none is: a quote character outside a span opens one, the
\* next occurrence of the same character closes it.
RECURSIVE QuoteAfter(_, _)
QuoteAfter(s, i) ==
    IF i = 0 THEN ""
    ELSE Bind(QuoteAfter(s, i - 1), LAMBDA q :
             IF q # "" THEN (IF s[i] = q THEN "" ELSE q)
             ELSE IF s[i] \in {DQ, SQ} THEN s[i]
             ELSE "")

\* The positions outside every quoted span (the quote characters belong to
\* their span).
OutsideQuotes(s) ==
    {i \in 1..Len(s) : QuoteAfter(s, i - 1) = "" /\ s[i] \notin {DQ, SQ}}

\* The nesting depth at position i: openers minus closers, outside quotes,
\* up to and including i.
DepthAt(s, out, i) ==
    Cardinality({j \in out : j <= i /\ s[j] \in {"{", "["}})
    - Cardinality({j \in out : j <= i /\ s[j] \in {"}", "]"}})

TopLevelCommas(s) ==
    LET out == OutsideQuotes(s)
    IN  {i \in out : s[i] = "," /\ DepthAt(s, out, i) = 0}

\* The trimmed texts between consecutive top-level commas, the last one
\* left out when it is empty.
ExpectedSegments(s) ==
    LET cs == TopLevelCommas(s)
        n  == Cardinality(cs)
        cut(k) == IF k = 0 THEN 0 ELSE IF k = n + 1 THEN Len(s) + 1 ELSE Nth(cs, k)
        all == [k \in 1..(n + 1) |-> trim(SubSeq(s, cut(k - 1) + 1, cut(k) - 1))]
    IN  IF all[n + 1] = <<>> THEN SubSeq(all, 1, n) ELSE all

\* C6: splitTopLevel returns, in order, the trimmed substrings delimited by
\* exactly the commas at nesting depth 0 outside quoted spans; only the
\* final segment is dropped when empty.
C6_SplitAtTopLevelCommas ==
    pc = "returned" => ret = ExpectedSegments(arg)

\* C6 witness: "a, {b: 1, c: 2}, [1,2]" has been split into three segments.
C6_Witness ==
    /\ pc = "returned"
    /\ arg = SplitExample
    /\ Len(ret) = 3
    /\ ret[2] = <<"{", "b", ":", " ", "1", ",", " ", "c", ":", " ", "2", "}">>

----------------------------------------------------------------------------
(* Properties of filterValue.                                              *)

\* A token of two characters or more in a pair of the same quote character.
Wrapped(v) == Len(v) >= 2 /\ v[1] \in {DQ, SQ} /\ v[Len(v)] = v[1]

\* C7: on the trimmed token, a token in matching quotes gives the String of
\* its inner text, whatever the inner text is; otherwise a token that
\* Number() converts gives that Number; otherwise true / false give the
\* Booleans; otherwise the trimmed text is returned as a String.
C7_CoercionPrecedence ==
    pc = "returned" =>
        LET v == trim(arg)
        IN  IF Wrapped(v) THEN ret = StrV(SubSeq(v, 2, Len(v) - 1))
            ELSE IF ~isNaN(Number(v)) THEN ret = NumV(Number(v))
            ELSE IF v = TrueTok THEN ret = BoolV(TRUE)
            ELSE IF v = FalseTok THEN ret = BoolV(FALSE)
            ELSE ret = StrV(v)

\* C7 witness: the quoted numeric token "3" has been returned as the
\* String 3.
C7_Witness ==
    /\ pc = "returned"
    /\ arg = <<DQ, "3", DQ>>
    /\ ret = StrV(<<"3">>)

----------------------------------------------------------------------------
(* Properties of parseObject, stated on the fragment.                      *)

\* The top-level comma-separated parts of a fragment { ... }.
TopLevelParts(frag) == ExpectedSegments(SubSeq(frag, 2, Len(frag) - 1))

HasColon(part) == \E c \in 1..Len(part) : part[c] = ":"

FirstColon(part) == Min({c \in 1..Len(part) : part[c] = ":"})

\* The key a part names: the text before its first ':', trimmed, without a
\* pair of quotes around it.
PartKey(part) ==
    LET k == trim(SubSeq(part, 1, FirstColon(part) - 1))
    IN  IF Wrapped(k) THEN SubSeq(k, 2, Len(k) - 1) ELSE k

PartValueText(part) == SubSeq(part, FirstColon(part) + 1, Len(part))

\* The parts of a fragment that have a ':'.
KeyedParts(frag) ==
    LET parts == TopLevelParts(frag)
    IN  SubseqAt(parts, {i \in 1..Len(parts) : HasColon(parts[i])})

\* The keys of the 'key:' occurrences of a fragment, in source order.
SourceKeys(frag) ==
    LET kp == KeyedParts(frag) IN [i \in 1..Len(kp) |-> PartKey(kp[i])]

\* The distinct elements of a sequence in the order they first appear.
FirstAppearances(seq) ==
    SubseqAt(seq, {i \in 1..Len(seq) : \A j \in 1..(i - 1) : seq[j] # seq[i]})

\* C4 as stated: the key set of the returned record is the set of keys of
\* the top-level 'key:' occurrences, and the record holds for each key the
\* value of its last occurrence.
C4_KeySetLastWins ==
    pc = "returned" =>
        LET kp == KeyedParts(arg)
        IN  /\ {Keys(ret)[i] : i \in 1..Len(Keys(ret))} = {PartKey(kp[i]) : i \in 1..Len(kp)}
            /\ \A i \in 1..Len(kp) :
                   (\A j \in (i + 1)..Len(kp) : PartKey(kp[j]) # PartKey(kp[i]))
                       => /\ hasOwnProperty(ret, PartKey(kp[i]))
                          /\ OwnValue(ret, PartKey(kp[i])) = parseValue(PartValueText(kp[i]))

\* C5 as stated: the keys of the returned record enumerate in the order in
\* which they first appear in the source text.
C5_KeyOrderFirstAppearance ==
    pc = "returned" =>
        Keys(ret) = SelectSeq(FirstAppearances(SourceKeys(arg)),
                              LAMBDA k : hasOwnProperty(ret, k))

----------------------------------------------------------------------------
(* Properties of the filters, stated on the records parsed from the blocks. *)

\* The parsed record of every block, before any filter.
Parsed == [i \in 1..Len(recordBlocks) |-> parseObject(recordBlocks[i])]

\* The values a record has for the keys, undefined where it has none.
TupleOf(rec, keys) == [j \in 1..Len(keys) |-> Get(rec, keys[j])]

OwnsAll(rec, keys) == \A j \in 1..Len(keys) : hasOwnProperty(rec, keys[j])

\* -s: the records that have the key.
StageMember(recs, key) == SubseqAt(recs, {i \in 1..Len(recs) : In(recs[i], key)})

\* -d: the records equal to no earlier record.
StageFull(recs) ==
    SubseqAt(recs, {i \in 1..Len(recs) : \A j \in 1..(i - 1) : recs[j] # recs[i]})

\* The record of the listed keys that rec owns, in the order listed.
ProjectTo(rec, keys) ==
    LET ks == SelectSeq(FirstAppearances(keys), LAMBDA k : hasOwnProperty(rec, k))
    IN  [t |-> "object", proto |-> <<>>,
         p |-> [n \in 1..Len(ks) |-> [key |-> ks[n], val |-> OwnValue(rec, ks[n])]]]

\* -l: every record projected.
StageProject(recs, keys) == [i \in 1..Len(recs) |-> ProjectTo(recs[i], keys)]

\* -D, adjacent: a record is removed when it and the record just before it
\* own all the keys and have the same values for them, the values being
\* compared as the code compares them: as their texts joined with |.
StageAdjacent(recs, keys) ==
    SubseqAt(recs, {i \in 1..Len(recs) :
                       ~ /\ i > 1
                         /\ OwnsAll(recs[i], keys)
                         /\ OwnsAll(recs[i - 1], keys)
                         /\ compositeKey2(recs[i], keys) = compositeKey2(recs[i - 1], keys)})

\* -D, first occurrence: a record is removed when any earlier record has the
\* same values for the keys, compared as their texts joined with |.
StageFirstOccurrence(recs, keys) ==
    SubseqAt(recs, {i \in 1..Len(recs) :
                       \A j \in 1..(i - 1) :
                           compositeKey1(recs[j], keys) # compositeKey1(recs[i], keys)})

\* -D is the only filter requested.
OnlyDiscardKeys(opts) ==
    /\ opts.discardKeys # <<>>
    /\ opts.subkeyword = <<>>
    /\ opts.listOfWords = <<>>
    /\ ~opts.discardFull

AfterMember(recs, opts) ==
    IF opts.subkeyword # <<>> THEN StageMember(recs, opts.subkeyword) ELSE recs

AfterFull(recs, opts) == IF opts.discardFull THEN StageFull(recs) ELSE recs

AfterProject(recs, opts) ==
    IF opts.listOfWords # <<>> THEN StageProject(recs, opts.listOfWords) ELSE recs

AfterAdjacent(recs, opts) ==
    IF opts.discardKeys # <<>> THEN StageAdjacent(recs, opts.discardKeys) ELSE recs

AfterFirstOccurrence(recs, opts) ==
    IF opts.discardKeys # <<>> THEN StageFirstOccurrence(recs, opts.discardKeys) ELSE recs

\* C10 as stated: the output is the parsed records after -s, then -d, then
\* -l, then the adjacent -D, the -D comparison being made on projected
\* records.
C10_OrderMemberFullProjectKeys ==
    pc = "done" =>
        printed = AfterAdjacent(AfterProject(AfterFull(AfterMember(Parsed, options), options),
                                             options), options)

\* C10, amended: the second main() applies -s, then -d, then the adjacent
\* -D on the records not yet projected, then -l; the first main() applies
\* -s, then -l, then -d, then the first-occurrence -D, both duplicate
\* filters on projected records.
C10_OrderPerMain ==
    pc = "done" =>
        /\ variant = 2 =>
               printed = AfterProject(AfterAdjacent(AfterFull(AfterMember(Parsed, options),
                                                              options), options), options)
        /\ variant = 1 =>
               printed = AfterFirstOccurrence(AfterFull(AfterProject(AfterMember(Parsed, options),
                                                                     options), options), options)

\* C10 witness: the second main() has run with all four filters on records
\* of which -s removes one and -D one, and printed the one record left,
\* projected.
C10_Witness ==
    /\ pc = "done"
    /\ variant = 2
    /\ options.subkeyword # <<>>
    /\ options.discardFull
    /\ options.listOfWords # <<>>
    /\ options.discardKeys # <<>>
    /\ file = <<RecA1, RecA2, RecV1>>
    /\ printed = <<ProjectTo(Parsed[1], options.listOfWords)>>

----------------------------------------------------------------------------
(* Properties of one step of the read loop.                                *)

\* The loop is about to read the line file[pos + 1].
AtLine == pc = "reading" /\ pos < Len(file)

\* The text without its leading whitespace.
TrimmedStart(line) ==
    SubSeq(line, Min({c \in 1..(Len(line) + 1) : c = Len(line) + 1 \/ line[c] \notin Whitespace}),
           Len(line))

BeginsWith(text, prefix) ==
    Len(text) >= Len(prefix) /\ SubSeq(text, 1, Len(prefix)) = prefix

\* C11 as stated, for the main() whose help text says "after trimming":
\* when no record is in progress, the line read starts a record (a record
\* is open or a block was pushed after it) exactly when the line without
\* its leading whitespace begins with the keyword.
C11_TriggerAfterTrimming ==
    [][(AtLine /\ variant = 2 /\ ~recordStarted)
          => ((recordStarted' \/ Len(recordBlocks') > Len(recordBlocks))
                 <=> BeginsWith(TrimmedStart(file[pos + 1]), options.keyword))]_vars

\* C12: while a record is open, a line that begins with the keyword starts
\* no new record: it is appended in full to the open block after a newline
\* and its braces are added to the depth; the block is pushed when the
\* depth is then 0 and stays the one open block otherwise.
C12_TriggerWhileRecordingAbsorbed ==
    [][(AtLine /\ recordStarted /\ BeginsWith(file[pos + 1], options.keyword))
          => LET text  == currentBlock \o <<"\n">> \o file[pos + 1]
                 depth == braceDepth + NetBraces(file[pos + 1])
             IN  /\ braceDepth' = depth
                 /\ IF depth = 0
                    THEN /\ recordBlocks' = Append(recordBlocks, text)
                         /\ currentBlock' = <<>>
                         /\ ~recordStarted'
                    ELSE /\ recordBlocks' = recordBlocks
                         /\ currentBlock' = text
                         /\ recordStarted']_vars

\* C12 witness: a second trigger line has been read while the record of
\* the first was open, and it is part of the open block.
C12_Witness ==
    /\ pc = "reading"
    /\ pos = 2
    /\ file[1] = LineOpen
    /\ file[2] = LineOpen
    /\ recordStarted
    /\ recordBlocks = <<>>
    /\ currentBlock = <<"{", "\n">> \o LineOpen
    /\ braceDepth = 2

\* The characters of a line the loop scans for braces: the whole line
\* while a record is open, a trigger line from its first '{', none of any
\* other line.
Scanned(line, started, keyword) ==
    IF started THEN line
    ELSE IF BeginsWith(line, keyword) /\ HasBrace(line) THEN FromFirstBrace(line)
    ELSE <<>>

\* C13: after each line the depth is the depth before it plus the '{' minus
\* the '}' among all scanned characters, those inside quotes included, and
\* a block is pushed exactly at the end of a line, read while a record is
\* open or opening one, after which this depth is 0.
C13_DepthNotQuoteAware ==
    [][AtLine
          => LET line  == file[pos + 1]
                 depth == braceDepth + NetBraces(Scanned(line, recordStarted, options.keyword))
                 open  == recordStarted \/ BeginsWith(line, options.keyword)
             IN  /\ braceDepth' = depth
                 /\ IF open /\ depth = 0
                    THEN Len(recordBlocks') = Len(recordBlocks) + 1
                    ELSE recordBlocks' = recordBlocks]_vars

\* C13 witness: after Tag {, s: "{", and } the record is still open at
\* depth 1: the quoted brace has kept the closing line from pushing it.
C13_Witness ==
    /\ pc = "reading"
    /\ pos = 3
    /\ file[1] = LineOpen
    /\ file[2] = LineQuoted
    /\ file[3] = LineClose
    /\ recordStarted
    /\ braceDepth = 1
    /\ recordBlocks = <<>>

\* C14: when no record is open and the line read begins with the keyword
\* and has no '{', exactly one block of empty text is pushed on that line,
\* it parses to the empty record, and no record is open after the line, so
\* the lines that follow do not belong to it.
C14_TriggerWithoutBrace ==
    [][(AtLine /\ ~recordStarted /\ BeginsWith(file[pos + 1], options.keyword)
               /\ ~HasBrace(file[pos + 1]))
          => /\ recordBlocks' = Append(recordBlocks, <<>>)
             /\ parseObject(recordBlocks'[Len(recordBlocks')]) = EmptyObject
             /\ ~recordStarted'
             /\ currentBlock' = <<>>
             /\ braceDepth' = 0]_vars

\* C14 witness: the file Tag, {, } has been processed: one empty block was
\* pushed and one empty record printed; the brace lines belong to no block.
C14_Witness ==
    /\ pc = "done"
    /\ file = <<LineBare, LineBrace, LineClose>>
    /\ recordBlocks = << <<>> >>
    /\ printed = <<EmptyObject>>
    /\ ~recordStarted

\* C17: at every line boundary, when no record is open the depth is 0 and
\* currentBlock is empty; when a record is open the depth is not 0 and is
\* the number of '{' minus the number of '}' in currentBlock.
C17_ExtractorInvariant ==
    /\ ~recordStarted => (braceDepth = 0 /\ currentBlock = <<>>)
    /\ recordStarted => (braceDepth # 0 /\ braceDepth = NetBraces(currentBlock))

\* C17 witness: after a block was pushed, a new record is open whose depth
\* and text come from its own lines only, a quoted brace among them.
C17_Witness ==
    /\ pc = "reading"
    /\ Len(recordBlocks) = 1
    /\ recordStarted
    /\ file[pos] = LineQuoted
    /\ braceDepth = 2
    /\ currentBlock = <<"{", "\n">> \o LineQuoted

----------------------------------------------------------------------------
(* Properties of filterValue on tokens that are not decimal literals.      *)

DecimalDigits == {"0", "1", "2", "3", "4", "5", "6", "7", "8", "9"}

IsDigitString(s) == Len(s) >= 1 /\ \A i \in 1..Len(s) : s[i] \in DecimalDigits

\* digits, digits . digits, digits . or . digits
IsMantissa(m) ==
    \/ IsDigitString(m)
    \/ /\ Len(m) >= 2
       /\ \E d \in 1..Len(m) :
             /\ m[d] = "."
             /\ \A i \in 1..Len(m) : i # d => m[i] \in DecimalDigits

\* digits with an optional sign
IsExponent(x) ==
    \/ IsDigitString(x)
    \/ (Len(x) >= 2 /\ x[1] \in {"+", "-"} /\ IsDigitString(Tail(x)))

IsUnsignedDecimal(u) ==
    \/ IsMantissa(u)
    \/ \E e \in 1..Len(u) :
          /\ u[e] \in {"e", "E"}
          /\ IsMantissa(SubSeq(u, 1, e - 1))
          /\ IsExponent(SubSeq(u, e + 1, Len(u)))

Unsigned(v) == IF v # <<>> /\ v[1] \in {"+", "-"} THEN Tail(v) ELSE v

\* A decimal / float literal with an optional sign.
IsDecimalLiteral(v) == IsUnsignedDecimal(Unsigned(v))

\* 0x, 0o or 0b followed by digits of the radix.
IsRadixLiteral(v) ==
    /\ Len(v) >= 3
    /\ v[1] = "0"
    /\ \/ (v[2] \in {"x", "X"} /\ AllDigits(SubSeq(v, 3, Len(v)), 16))
       \/ (v[2] \in {"o", "O"} /\ AllDigits(SubSeq(v, 3, Len(v)), 8))
       \/ (v[2] \in {"b", "B"} /\ AllDigits(SubSeq(v, 3, Len(v)), 2))

\* The tokens that are no decimal literal and that Number() converts.
ConvertedAnyway(v) == v = <<>> \/ Unsigned(v) = InfinityTok \/ IsRadixLiteral(v)

\* C15 as stated: an unquoted token that is no decimal / float literal and
\* is not true or false is returned as the String of its trimmed text.
C15_NonDecimalIsString ==
    (pc = "returned" /\ ~Wrapped(trim(arg)) /\ ~IsDecimalLiteral(trim(arg))
                     /\ trim(arg) \notin {TrueTok, FalseTok})
        => ret = StrV(trim(arg))

\* C15, amended: an unquoted token that is no decimal / float literal and
\* is not true or false is returned as the String of its trimmed text
\* unless Number() converts it: the empty token gives the Number 0,
\* Infinity with an optional sign the Number Infinity, and a 0x, 0o or 0b
\* literal its Number.
C15_NonDecimalIsStringUnlessConverted ==
    (pc = "returned" /\ ~Wrapped(trim(arg)) /\ ~IsDecimalLiteral(trim(arg))
                     /\ trim(arg) \notin {TrueTok, FalseTok})
        => LET v == trim(arg)
           IN  IF v = <<>> THEN ret = NumV(Fin(0, 0))
               ELSE IF v = InfinityTok THEN ret = NumV(Inf(1))
               ELSE IF v = <<"-">> \o InfinityTok THEN ret = NumV(Inf(-1))
               ELSE IF v = <<"0", "x", "1", "f">> THEN ret = NumV(Fin(31, 0))
               ELSE IF ConvertedAnyway(v) THEN ret.t = "number"
               ELSE ret = StrV(v)

\* C15 witness: the token NaN has been returned as the String NaN.
C15_Witness ==
    /\ pc = "returned"
    /\ arg = <<"N", "a", "N">>
    /\ ret = StrV(<<"N", "a", "N">>)

----------------------------------------------------------------------------
(* Properties of the adjacent -D pass on values of different shapes.       *)

\* C16: in the second main(), -D alone removes a record only when it and
\* the record just before it own all the keys and their tuples of key
\* values are equal component by component; tuples that differ in a
\* component (where a | falls, Number against String, nested content) are
\* both kept, and a record lacking a key is kept.
C16_DroppedOnlyOnEqualTuples ==
    (pc = "done" /\ variant = 2 /\ OnlyDiscardKeys(options))
        => LET keys == options.discardKeys
               dropped(i) == /\ i > 1
                             /\ OwnsAll(Parsed[i], keys)
                             /\ OwnsAll(Parsed[i - 1], keys)
                             /\ TupleOf(Parsed[i], keys) = TupleOf(Parsed[i - 1], keys)
           IN  printed = SubseqAt(Parsed, {i \in 1..Len(Parsed) : ~dropped(i)})

====
